---- MODULE Spec2Model ----
(***************************************************************************)
(* Library management system (src/LMS/main.py): the three SQLite tables    *)
(* users, books and borrowed, and the operations of the core that read and *)
(* write them.  Every operation opens its own connection and commits once, *)
(* so under the single-session use of the program one call is one step.    *)
(* A call returns the tuple (ok, message); <op>_result is that tuple, which *)
(* the checks of the operation decide from the store and the arguments.    *)
(* SQLite leaves foreign keys unenforced unless PRAGMA foreign_keys is     *)
(* set, and the program never sets it: REFERENCES clauses constrain        *)
(* nothing.                                                                *)
(***************************************************************************)
EXTENDS Integers, FiniteSets, Sequences, TLC

VARIABLES users, user_seq, books, book_seq, borrowed, borrow_seq,
          conns, reserved, pending

\* the committed database
store == <<users, user_seq, books, book_seq, borrowed, borrow_seq>>

\* the connections that are open on it: where each call stands, which of them
\* holds the write lock, and what that one has written and not yet committed
open_conns == <<conns, reserved, pending>>

vars == <<users, user_seq, books, book_seq, borrowed, borrow_seq,
          conns, reserved, pending>>

(* ---------------- bound of the model ---------------- *)
\* the rows the three AUTOINCREMENT tables receive in all, the seeded admin included
MaxRows == 4

(* ---------------- program constants ---------------- *)
DEFAULT_LOAN_DAYS == 14
SecondsPerDay == 86400
\* requester_user_id=None
None == 0
\* SQL NULL in year and return_date
NULL == -1

(* ---------------- utilities ---------------- *)
\* hashlib.sha256(pw).hexdigest(): an opaque injective digest
hash_password(pw) == <<"sha256", pw>>

\* a datetime is its whole seconds and its microseconds;
\* strftime("%Y-%m-%d %H:%M:%S") drops the microseconds
strftime(t) == t.sec

\* now_iso(): the formatted reading of the clock
now_iso(now) == strftime(now)

\* (mutant) timedelta(DEFAULT_LOAN_DAYS) taken for seconds
plus_loan_days_as_seconds(t) == [t EXCEPT !.sec = @ + DEFAULT_LOAN_DAYS]

\* borrow_date + timedelta(days=DEFAULT_LOAN_DAYS), on datetimes
plus_loan_days(t) == [t EXCEPT !.sec = @ + DEFAULT_LOAN_DAYS * SecondsPerDay]

\* str.strip() on the texts the forms supply
strip(s) ==
    CASE s = " Dune " -> "Dune"
      [] s = " " -> ""
      [] OTHER -> s

\* int(s) raises ValueError on a text that is no integer literal
ValueError(s) == s \notin {"-1", "0", "1", "2", "3", "4", "1965"}

\* int(s), where it raises nothing
int(s) ==
    CASE s = "-1" -> -1
      [] s = "0" -> 0
      [] s = "1" -> 1
      [] s = "2" -> 2
      [] s = "3" -> 3
      [] s = "4" -> 4
      [] s = "1965" -> 1965

\* int(year) if str(year).strip() else None: whether it raises, and its value
year_error(year) == strip(year) # "" /\ ValueError(year)

year_val(year) == IF strip(year) # "" THEN int(year) ELSE NULL

(* ---------------- inputs ---------------- *)
Usernames == {"", "admin", "alice"}
Passwords == {"", "pw"}
Roles == {"admin", "user", "guest"}
QtyTexts == {"x", "-1", "0", "1", "2"}
\* readings of datetime.now(), a wall clock that may also be set back
Times == {[sec |-> 0, usec |-> 1], [sec |-> 1, usec |-> 0]}
\* the ids a caller may pass: those assigned so far and one never assigned
UserIds == 1..(user_seq + 1)
BookIds == 1..(book_seq + 1)
BorrowIds == 1..(borrow_seq + 1)
\* another row may be inserted
RowsLeft == user_seq + book_seq + borrow_seq < MaxRows
\* what the book form holds: title, author, isbn, year
BookForms ==
    { [title |-> "Dune", author |-> "Herbert", isbn |-> "", year |-> ""],
      [title |-> "", author |-> "Herbert", isbn |-> "", year |-> ""],
      [title |-> "Dune", author |-> "Herbert", isbn |-> "", year |-> "x"] }
\* the forms update_book is given: a selected row keeps its title
UpdateForms == {f \in BookForms : f.title # ""}
\* what update_book is given: a form and the texts of Total and Avail, each
\* text wrong in turn while the others are right
UpdateInputs ==
    { <<f, qt, qa>> \in UpdateForms \X QtyTexts \X QtyTexts :
        \/ ~year_error(f.year) /\ ~ValueError(qt) /\ ~ValueError(qa)
        \/ year_error(f.year) /\ qt = "1" /\ qa = "1"
        \/ ~year_error(f.year) /\ ValueError(qt) /\ qa = "1"
        \/ ~year_error(f.year) /\ qt = "1" /\ ValueError(qa) }

(* ---------------- queries ---------------- *)
\* SELECT COUNT(*) FROM users WHERE role='admin'
admin_count(u) == Cardinality({i \in DOMAIN u : u[i].role = "admin"})

\* SELECT COUNT(*) FROM borrowed WHERE user_id=? AND return_date IS NULL
active_of_user(b, uid) ==
    Cardinality({i \in DOMAIN b : b[i].user_id = uid /\ b[i].return_date = NULL})

\* (mutant) the count without its "return_date IS NULL"
active_of_book_counts_returned(b, bid) ==
    Cardinality({i \in DOMAIN b : b[i].book_id = bid})

\* SELECT COUNT(*) FROM borrowed WHERE book_id=? AND return_date IS NULL
active_of_book(b, bid) ==
    Cardinality({i \in DOMAIN b : b[i].book_id = bid /\ b[i].return_date = NULL})

\* the UNIQUE constraint on users.username
username_taken(u, name) == \E i \in DOMAIN u : u[i].username = name

\* a row added to a table: the function t extended at key k
Insert(t, k, row) == [i \in DOMAIN t \cup {k} |-> IF i = k THEN row ELSE t[i]]

\* a row removed from a table (no row: nothing changes)
Delete(t, k) == [i \in DOMAIN t \ {k} |-> t[i]]

EmptyTable == [i \in {} |-> 0]

(* ---------------- init_db ---------------- *)
\* the seeding of the default admin: INSERT OR IGNORE when no admin exists
seed_users(u, seq) ==
    IF admin_count(u) = 0 /\ ~username_taken(u, "admin")
    THEN Insert(u, seq + 1, [username |-> "admin",
                             password_hash |-> hash_password("admin123"),
                             role |-> "admin"])
    ELSE u

seed_seq(u, seq) ==
    IF admin_count(u) = 0 /\ ~username_taken(u, "admin") THEN seq + 1 ELSE seq

\* the connections of the two processes that may have the database open
Conns == {1, 2}

\* a connection between calls: no call in progress, nothing read
idle_conn == [pc |-> "idle", call |-> "none", a1 |-> None, a2 |-> None, row |-> ""]

\* no transaction is open
no_pending ==
    [users |-> EmptyTable, user_seq |-> 0, books |-> EmptyTable, book_seq |-> 0,
     borrowed |-> EmptyTable, borrow_seq |-> 0]

Init ==
    /\ users = seed_users(EmptyTable, 0)
    /\ user_seq = seed_seq(EmptyTable, 0)
    /\ books = EmptyTable
    /\ book_seq = 0
    /\ borrowed = EmptyTable
    /\ borrow_seq = 0
    /\ conns = [c \in Conns |-> idle_conn]
    /\ reserved = None
    /\ pending = no_pending

\* the program started again on the stored database
init_db ==
    /\ users' = seed_users(users, user_seq)
    /\ user_seq' = seed_seq(users, user_seq)
    /\ UNCHANGED <<books, book_seq, borrowed, borrow_seq>>
    /\ UNCHANGED open_conns

(* ---------------- Auth ---------------- *)
\* (mutant) the users table without UNIQUE on username
register_integrity_error_no_unique(username, role) == role \notin {"admin", "user"}

\* the INSERT of register_user raises sqlite3.IntegrityError: UNIQUE(username)
\* or CHECK(role IN ('admin','user'))
register_integrity_error(username, role) ==
    username_taken(users, username) \/ role \notin {"admin", "user"}

register_result(username, password, role) ==
    IF username = "" \/ password = ""
    THEN <<FALSE, "Username and password required">>
    ELSE IF register_integrity_error(username, role)
    THEN <<FALSE, "Username already exists">>
    ELSE <<TRUE, "User registered">>

\* (mutant) user_id INTEGER PRIMARY KEY without AUTOINCREMENT: the new id is
\* one more than the largest id in the table
register_user_reuses_rowid(username, password, role) ==
    /\ UNCHANGED <<books, book_seq, borrowed, borrow_seq>>
    /\ IF register_result(username, password, role)[1]
       THEN /\ RowsLeft
            /\ \E top \in {0} \cup DOMAIN users :
                  /\ \A i \in DOMAIN users : i <= top
                  /\ users' = Insert(users, top + 1,
                                     [username |-> username,
                                      password_hash |-> hash_password(password),
                                      role |-> role])
                  /\ user_seq' = top + 1
       ELSE UNCHANGED <<users, user_seq>>

register_user(username, password, role) ==
    /\ UNCHANGED <<books, book_seq, borrowed, borrow_seq>>
    /\ IF register_result(username, password, role)[1]
       THEN /\ RowsLeft
            /\ users' = Insert(users, user_seq + 1,
                               [username |-> username,
                                password_hash |-> hash_password(password),
                                role |-> role])
            /\ user_seq' = user_seq + 1
       ELSE UNCHANGED <<users, user_seq>>

\* SELECT ... FROM users WHERE username=? and fetchone(): a row, or None
login_row(username) ==
    IF username_taken(users, username)
    THEN CHOOSE i \in DOMAIN users : users[i].username = username
    ELSE None

\* (mutant) the digest not compared
login_result_any_password(username, password) ==
    LET row == login_row(username)
    IN  IF row # None
        THEN <<TRUE, [user_id |-> row, username |-> users[row].username,
                      role |-> users[row].role]>>
        ELSE <<FALSE, "Invalid username or password">>

login_result(username, password) ==
    LET row == login_row(username)
    IN  IF row # None /\ users[row].password_hash = hash_password(password)
        THEN <<TRUE, [user_id |-> row, username |-> users[row].username,
                      role |-> users[row].role]>>
        ELSE <<FALSE, "Invalid username or password">>

\* login_user only reads
login_user(username, password) == UNCHANGED vars

(* ---------------- Users (admin management) ---------------- *)
\* (mutant) admin_count < 1 for admin_count <= 1
delete_user_result_off_by_one(user_id_to_delete, requester_user_id) ==
    IF user_id_to_delete \notin DOMAIN users
    THEN <<FALSE, "User not found">>
    ELSE IF requester_user_id # None /\ user_id_to_delete = requester_user_id
    THEN <<FALSE, "You cannot delete your own account while logged in.">>
    ELSE IF active_of_user(borrowed, user_id_to_delete) > 0
    THEN <<FALSE, "Cannot delete: user has active (unreturned) borrowed books">>
    ELSE IF users[user_id_to_delete].role = "admin" /\ admin_count(users) < 1
    THEN <<FALSE, "Cannot delete the last remaining admin">>
    ELSE <<TRUE, "User deleted successfully">>

\* (mutant) the active borrows checked before the self-delete guard
delete_user_result_loans_first(user_id_to_delete, requester_user_id) ==
    IF user_id_to_delete \notin DOMAIN users
    THEN <<FALSE, "User not found">>
    ELSE IF active_of_user(borrowed, user_id_to_delete) > 0
    THEN <<FALSE, "Cannot delete: user has active (unreturned) borrowed books">>
    ELSE IF requester_user_id # None /\ user_id_to_delete = requester_user_id
    THEN <<FALSE, "You cannot delete your own account while logged in.">>
    ELSE IF users[user_id_to_delete].role = "admin" /\ admin_count(users) <= 1
    THEN <<FALSE, "Cannot delete the last remaining admin">>
    ELSE <<TRUE, "User deleted successfully">>

\* the checks of delete_user_db, in the order of the code
delete_user_result(user_id_to_delete, requester_user_id) ==
    IF user_id_to_delete \notin DOMAIN users
    THEN <<FALSE, "User not found">>
    ELSE IF requester_user_id # None /\ user_id_to_delete = requester_user_id
    THEN <<FALSE, "You cannot delete your own account while logged in.">>
    ELSE IF active_of_user(borrowed, user_id_to_delete) > 0
    THEN <<FALSE, "Cannot delete: user has active (unreturned) borrowed books">>
    ELSE IF users[user_id_to_delete].role = "admin" /\ admin_count(users) <= 1
    THEN <<FALSE, "Cannot delete the last remaining admin">>
    ELSE <<TRUE, "User deleted successfully">>

\* (mutant) the loans of a deleted user deleted with it
delete_user_db_cascade(user_id_to_delete, requester_user_id) ==
    /\ UNCHANGED <<user_seq, books, book_seq, borrow_seq>>
    /\ IF delete_user_result(user_id_to_delete, requester_user_id)[1]
       THEN /\ users' = Delete(users, user_id_to_delete)
            /\ borrowed' = [l \in {x \in DOMAIN borrowed :
                                      borrowed[x].user_id # user_id_to_delete}
                               |-> borrowed[l]]
       ELSE UNCHANGED <<users, borrowed>>

delete_user_db(user_id_to_delete, requester_user_id) ==
    /\ users' = IF delete_user_result(user_id_to_delete, requester_user_id)[1]
                THEN Delete(users, user_id_to_delete)
                ELSE users
    /\ UNCHANGED <<user_seq, books, book_seq, borrowed, borrow_seq>>

(* ---------------- Books ---------------- *)
\* (mutant) qty_val < 0 for qty_val <= 0
add_result_allows_zero(form, qty) ==
    IF form.title = "" \/ form.author = ""
    THEN <<FALSE, "Title, author and quantity required">>
    ELSE IF year_error(form.year)
    THEN <<FALSE, "Year must be a number">>
    ELSE IF ValueError(qty) \/ int(qty) < 0
    THEN <<FALSE, "Quantity must be a positive integer">>
    ELSE <<TRUE, "Book added">>

add_result(form, qty) ==
    IF form.title = "" \/ form.author = ""
    THEN <<FALSE, "Title, author and quantity required">>
    ELSE IF year_error(form.year)
    THEN <<FALSE, "Year must be a number">>
    ELSE IF ValueError(qty) \/ int(qty) <= 0
    THEN <<FALSE, "Quantity must be a positive integer">>
    ELSE <<TRUE, "Book added">>

\* the row of the books table a form and its quantities make
book_row(form, qt, qa) ==
    [title |-> strip(form.title), author |-> strip(form.author),
     isbn |-> strip(form.isbn), year |-> year_val(form.year),
     qty_total |-> qt, qty_available |-> qa]

add_book(form, qty) ==
    /\ UNCHANGED <<users, user_seq, borrowed, borrow_seq>>
    /\ IF add_result(form, qty)[1]
       THEN /\ RowsLeft
            /\ books' = Insert(books, book_seq + 1, book_row(form, int(qty), int(qty)))
            /\ book_seq' = book_seq + 1
       ELSE UNCHANGED <<books, book_seq>>

\* (mutant) the quantity check without its "qa > qt"
quantities_invalid_no_order(qt, qa) == qt < 0 \/ qa < 0

\* the quantity check of update_book
quantities_invalid(qt, qa) == qt < 0 \/ qa < 0 \/ qa > qt

update_result(book_id, form, qty_total, qty_available) ==
    IF year_error(form.year) \/ ValueError(qty_total) \/ ValueError(qty_available)
    THEN <<FALSE, "Invalid numeric input">>
    ELSE IF quantities_invalid(int(qty_total), int(qty_available))
    THEN <<FALSE, "Quantities invalid (available <= total, non-negative)">>
    ELSE <<TRUE, "Book updated">>

\* UPDATE books SET ... WHERE book_id=?: the table after it (no such row,
\* nothing changes)
updated_books(book_id, form, qty_total, qty_available) ==
    [i \in DOMAIN books |->
        IF i = book_id
        THEN book_row(form, int(qty_total), int(qty_available))
        ELSE books[i]]

update_book(book_id, form, qty_total, qty_available) ==
    /\ UNCHANGED <<users, user_seq, book_seq, borrowed, borrow_seq>>
    /\ IF update_result(book_id, form, qty_total, qty_available)[1]
       THEN books' = updated_books(book_id, form, qty_total, qty_available)
       ELSE UNCHANGED books

\* (mutant) the count of open loans not consulted
delete_book_result_unguarded(book_id) == <<TRUE, "Book deleted">>

delete_book_result(book_id) ==
    IF active_of_book(borrowed, book_id) > 0
    THEN <<FALSE, "Cannot delete: book currently borrowed">>
    ELSE <<TRUE, "Book deleted">>

\* (mutant) the loans of a deleted book deleted with it
delete_book_cascade(book_id) ==
    /\ UNCHANGED <<users, user_seq, book_seq, borrow_seq>>
    /\ IF delete_book_result(book_id)[1]
       THEN /\ books' = Delete(books, book_id)
            /\ borrowed' = [l \in {x \in DOMAIN borrowed : borrowed[x].book_id # book_id}
                               |-> borrowed[l]]
       ELSE UNCHANGED <<books, borrowed>>

delete_book(book_id) ==
    /\ UNCHANGED <<users, user_seq, book_seq, borrowed, borrow_seq>>
    /\ books' = IF delete_book_result(book_id)[1] THEN Delete(books, book_id) ELSE books

(* ---------------- Borrow / Return ---------------- *)
\* (mutant) row[0] < 0 for row[0] <= 0
no_copies_negative(qty_available) == qty_available < 0

\* row[0] <= 0: no copy to lend
no_copies(qty_available) == qty_available <= 0

borrow_result(user_id, book_id) ==
    IF book_id \notin DOMAIN books
    THEN <<FALSE, "Book not found">>
    ELSE IF no_copies(books[book_id].qty_available)
    THEN <<FALSE, "No copies available">>
    ELSE <<TRUE, "Borrowed successfully">>

\* the row borrow_book inserts
borrow_row(user_id, book_id, now) ==
    [user_id |-> user_id, book_id |-> book_id,
     borrow_date |-> strftime(now),
     due_date |-> strftime(plus_loan_days(now)),
     return_date |-> NULL]

\* (mutant) the UPDATE without its WHERE clause
adjust_available_all(b, book_id, d) ==
    [i \in DOMAIN b |-> [b[i] EXCEPT !.qty_available = @ + d]]

\* UPDATE books SET qty_available = qty_available + d WHERE book_id=?
adjust_available(b, book_id, d) ==
    [i \in DOMAIN b |->
        IF i = book_id
        THEN [b[i] EXCEPT !.qty_available = @ + d]
        ELSE b[i]]

\* (mutant) the loan inserted before the copies are counted
borrow_book_inserts_first(user_id, book_id, now) ==
    /\ UNCHANGED <<users, user_seq, book_seq>>
    /\ IF borrow_result(user_id, book_id)[1]
       THEN /\ RowsLeft
            /\ borrowed' = Insert(borrowed, borrow_seq + 1,
                                  borrow_row(user_id, book_id, now))
            /\ borrow_seq' = borrow_seq + 1
            /\ books' = adjust_available(books, book_id, -1)
       ELSE IF book_id \in DOMAIN books
       THEN /\ RowsLeft
            /\ borrowed' = Insert(borrowed, borrow_seq + 1,
                                  borrow_row(user_id, book_id, now))
            /\ borrow_seq' = borrow_seq + 1
            /\ UNCHANGED books
       ELSE UNCHANGED <<books, borrowed, borrow_seq>>

borrow_book(user_id, book_id, now) ==
    /\ UNCHANGED <<users, user_seq, book_seq>>
    /\ IF borrow_result(user_id, book_id)[1]
       THEN /\ RowsLeft
            /\ borrowed' = Insert(borrowed, borrow_seq + 1,
                                  borrow_row(user_id, book_id, now))
            /\ borrow_seq' = borrow_seq + 1
            /\ books' = adjust_available(books, book_id, -1)
       ELSE UNCHANGED <<books, borrowed, borrow_seq>>

\* (mutant) the check of return_date left out
return_result_ignores_returned(borrow_id) ==
    IF borrow_id \notin DOMAIN borrowed
    THEN <<FALSE, "Borrow record not found">>
    ELSE <<TRUE, "Returned successfully">>

return_result(borrow_id) ==
    IF borrow_id \notin DOMAIN borrowed
    THEN <<FALSE, "Borrow record not found">>
    ELSE IF borrowed[borrow_id].return_date # NULL
    THEN <<FALSE, "Already returned">>
    ELSE <<TRUE, "Returned successfully">>

\* (mutant) the return date set, the book's count left as it was
return_book_forgets_book(borrow_id, now) ==
    /\ UNCHANGED <<users, user_seq, books, book_seq, borrow_seq>>
    /\ IF return_result(borrow_id)[1]
       THEN borrowed' = [borrowed EXCEPT ![borrow_id].return_date = now_iso(now)]
       ELSE UNCHANGED borrowed

return_book(borrow_id, now) ==
    /\ UNCHANGED <<users, user_seq, book_seq, borrow_seq>>
    /\ IF return_result(borrow_id)[1]
       THEN /\ borrowed' = [borrowed EXCEPT ![borrow_id].return_date = now_iso(now)]
            /\ books' = adjust_available(books, borrowed[borrow_id].book_id, 1)
       ELSE UNCHANGED <<books, borrowed>>

\* list_borrowed_by_user: the loans of the user, joined with their books
list_borrowed_by_user(user_id) ==
    {l \in DOMAIN borrowed :
        borrowed[l].user_id = user_id /\ borrowed[l].book_id \in DOMAIN books}

(* ---------------- the program ---------------- *)
Register ==
    \E n \in Usernames, p \in Passwords, r \in Roles :
        register_user(n, p, r) /\ UNCHANGED open_conns

DeleteUser ==
    \E t \in UserIds, r \in UserIds \cup {None} :
        delete_user_db(t, r) /\ UNCHANGED open_conns

AddBook == \E f \in BookForms, q \in QtyTexts : add_book(f, q) /\ UNCHANGED open_conns

UpdateBook ==
    \E b \in BookIds, i \in UpdateInputs :
        update_book(b, i[1], i[2], i[3]) /\ UNCHANGED open_conns

DeleteBook == \E b \in BookIds : delete_book(b) /\ UNCHANGED open_conns

Borrow ==
    \E u \in UserIds, b \in BookIds, t \in Times :
        borrow_book(u, b, t) /\ UNCHANGED open_conns

Return == \E l \in BorrowIds, t \in Times : return_book(l, t) /\ UNCHANGED open_conns

Next ==
    \/ init_db
    \/ Register
    \/ DeleteUser
    \/ AddBook
    \/ UpdateBook
    \/ DeleteBook
    \/ Borrow
    \/ Return

Spec == Init /\ [][Next]_vars

\* the program without the administrative update of a book
NextNoUpdate ==
    \/ init_db
    \/ Register
    \/ DeleteUser
    \/ AddBook
    \/ DeleteBook
    \/ Borrow
    \/ Return

SpecNoUpdate == Init /\ [][NextNoUpdate]_vars

(* ---------------- the login window ---------------- *)
\* the names and passwords typed into the login and register windows
AuthUsernames == {"", "admin", "Admin", "alice"}
AuthPasswords == {"", "pw", "admin123"}

RegisterAccount ==
    \E n \in AuthUsernames, p \in AuthPasswords, r \in Roles :
        register_user(n, p, r) /\ UNCHANGED open_conns

Login == \E n \in AuthUsernames, p \in AuthPasswords : login_user(n, p)

\* the accounts: started again, registered, deleted and logged into
NextAuth ==
    \/ init_db
    \/ RegisterAccount
    \/ DeleteUser
    \/ Login

SpecAuth == Init /\ [][NextAuth]_vars

(* ---------------- the catalog desk ---------------- *)
\* the book form in full: a plain entry, an entry with padded title and a
\* year, a year that is no number, a missing title, a missing author
CatalogForms ==
    { [title |-> "Dune", author |-> "Herbert", isbn |-> "", year |-> ""],
      [title |-> " Dune ", author |-> "Herbert", isbn |-> " ", year |-> "1965"],
      [title |-> "Dune", author |-> "Herbert", isbn |-> "", year |-> "x"],
      [title |-> "", author |-> "Herbert", isbn |-> "", year |-> ""],
      [title |-> "Dune", author |-> "", isbn |-> "", year |-> ""] }

\* the texts of the quantity fields at the desk
CatalogQtyTexts == {"x", "-1", "0", "1"}

\* what update_book is given at the desk: the form of a selected row, which
\* has a title and an author, and the texts of Total and Avail: quantities
\* that pass, each way of failing the quantity check, and each text wrong in
\* turn while the others are right
CatalogUpdateInputs ==
    { <<f, qt, qa>> \in CatalogForms \X CatalogQtyTexts \X CatalogQtyTexts :
        /\ f.title # "" /\ f.author # ""
        /\ \/ /\ ~year_error(f.year)
              /\ <<qt, qa>> \in { <<"1", "1">>, <<"1", "0">>, <<"0", "0">>,
                                  <<"0", "1">>, <<"-1", "-1">>, <<"1", "-1">> }
           \/ year_error(f.year) /\ qt = "1" /\ qa = "1"
           \/ ~year_error(f.year) /\ ValueError(qt) /\ qa = "1"
           \/ ~year_error(f.year) /\ qt = "1" /\ ValueError(qa) }

AddBookForm ==
    \E f \in CatalogForms, q \in CatalogQtyTexts :
        add_book(f, q) /\ UNCHANGED open_conns

UpdateBookForm ==
    \E b \in BookIds, i \in CatalogUpdateInputs :
        update_book(b, i[1], i[2], i[3]) /\ UNCHANGED open_conns

\* the user window borrows for the user who is logged in
BorrowByUser ==
    \E u \in DOMAIN users, b \in BookIds, t \in Times :
        borrow_book(u, b, t) /\ UNCHANGED open_conns

\* the administrator's Books tab and the user's borrow and return
NextCatalog ==
    \/ AddBookForm
    \/ UpdateBookForm
    \/ DeleteBook
    \/ BorrowByUser
    \/ Return

SpecCatalog == Init /\ [][NextCatalog]_vars

(* ---------------- borrowing through the user window ---------------- *)
\* the program with borrow_book called for logged-in users only
NextUserBorrows ==
    \/ init_db
    \/ Register
    \/ DeleteUser
    \/ AddBook
    \/ UpdateBook
    \/ DeleteBook
    \/ BorrowByUser
    \/ Return

SpecUserBorrows == Init /\ [][NextUserBorrows]_vars

(* ---------------- two processes on one database ---------------- *)
(* Each call opens its own connection (get_conn).  sqlite3 runs a SELECT    *)
(* on its own, outside any transaction, and opens the transaction of a call *)
(* at its first INSERT, UPDATE or DELETE, which takes the write lock of the *)
(* database; commit() publishes what the transaction wrote and gives the    *)
(* lock back.  A step below is one statement of one call.                   *)

\* the committed database as one record
committed ==
    [users |-> users, user_seq |-> user_seq, books |-> books, book_seq |-> book_seq,
     borrowed |-> borrowed, borrow_seq |-> borrow_seq]

\* the call of connection c returns (False, message): nothing is written
returns_failure(c) ==
    /\ conns' = [conns EXCEPT ![c] = idle_conn]
    /\ UNCHANGED <<store, reserved, pending>>

\* the call of connection c goes on to its next statement
goes_on(c, pc, call, a1, a2, row) ==
    /\ conns' = [conns EXCEPT ![c] = [pc |-> pc, call |-> call, a1 |-> a1,
                                      a2 |-> a2, row |-> row]]
    /\ UNCHANGED <<store, reserved, pending>>

\* the first write of a call: the transaction begins on the committed
\* database, once no other connection holds the write lock
begins(c, pc, written) ==
    /\ reserved = None
    /\ reserved' = c
    /\ pending' = written
    /\ conns' = [conns EXCEPT ![c].pc = pc]
    /\ UNCHANGED store

\* a later write of the same transaction
writes(c, pc, written) ==
    /\ reserved = c
    /\ pending' = written
    /\ conns' = [conns EXCEPT ![c].pc = pc]
    /\ UNCHANGED <<store, reserved>>

\* register_user: the check of the arguments, the INSERT, then conn.commit()
conn_register(c, username, password, role) ==
    /\ conns[c].pc = "idle"
    /\ reserved = None
    /\ IF register_result(username, password, role)[1]
       THEN /\ RowsLeft
            /\ reserved' = c
            /\ pending' = [committed EXCEPT
                              !.users = Insert(users, user_seq + 1,
                                               [username |-> username,
                                                password_hash |-> hash_password(password),
                                                role |-> role]),
                              !.user_seq = user_seq + 1]
            /\ conns' = [conns EXCEPT ![c] = [idle_conn EXCEPT !.pc = "commit",
                                                               !.call = "register"]]
            /\ UNCHANGED store
       ELSE returns_failure(c)

\* add_book("Dune", "Herbert", "", "", "1"): the INSERT, then conn.commit()
conn_add(c) ==
    /\ conns[c].pc = "idle"
    /\ reserved = None
    /\ RowsLeft
    /\ reserved' = c
    /\ pending' = [committed EXCEPT
                      !.books = Insert(books, book_seq + 1,
                                       book_row([title |-> "Dune", author |-> "Herbert",
                                                 isbn |-> "", year |-> ""], 1, 1)),
                      !.book_seq = book_seq + 1]
    /\ conns' = [conns EXCEPT ![c] = [idle_conn EXCEPT !.pc = "commit", !.call = "add"]]
    /\ UNCHANGED store

\* borrow_book: SELECT qty_available and the two checks
borrow_select(c, user_id, book_id) ==
    /\ conns[c].pc = "idle"
    /\ IF borrow_result(user_id, book_id)[1]
       THEN goes_on(c, "borrow_insert", "borrow", user_id, book_id, "")
       ELSE returns_failure(c)

\* borrow_book: INSERT INTO borrowed
borrow_insert(c, now) ==
    /\ conns[c].pc = "borrow_insert"
    /\ RowsLeft
    /\ begins(c, "borrow_update",
              [committed EXCEPT
                  !.borrowed = Insert(borrowed, borrow_seq + 1,
                                      borrow_row(conns[c].a1, conns[c].a2, now)),
                  !.borrow_seq = borrow_seq + 1])

\* borrow_book: UPDATE books SET qty_available = qty_available - 1
borrow_update(c) ==
    /\ conns[c].pc = "borrow_update"
    /\ writes(c, "commit",
              [pending EXCEPT !.books = adjust_available(pending.books, conns[c].a2, -1)])

\* return_book: SELECT book_id, return_date and the two checks
return_select(c, borrow_id) ==
    /\ conns[c].pc = "idle"
    /\ IF return_result(borrow_id)[1]
       THEN goes_on(c, "return_mark", "return", borrow_id,
                    borrowed[borrow_id].book_id, "")
       ELSE returns_failure(c)

\* return_book: UPDATE borrowed SET return_date
return_mark(c, now) ==
    /\ conns[c].pc = "return_mark"
    /\ begins(c, "return_update",
              [committed EXCEPT
                  !.borrowed = [borrowed EXCEPT ![conns[c].a1].return_date = now_iso(now)]])

\* return_book: UPDATE books SET qty_available = qty_available + 1
return_update(c) ==
    /\ conns[c].pc = "return_update"
    /\ writes(c, "commit",
              [pending EXCEPT !.books = adjust_available(pending.books, conns[c].a2, 1)])

\* delete_book: SELECT COUNT(*) of the open loans and its check
book_select(c, book_id) ==
    /\ conns[c].pc = "idle"
    /\ IF delete_book_result(book_id)[1]
       THEN goes_on(c, "book_delete", "delete_book", book_id, None, "")
       ELSE returns_failure(c)

\* delete_book: DELETE FROM books
book_delete(c) ==
    /\ conns[c].pc = "book_delete"
    /\ begins(c, "commit", [committed EXCEPT !.books = Delete(books, conns[c].a1)])

\* delete_user_db: SELECT user_id, role, and the checks of the target and of
\* the requester
user_select(c, user_id_to_delete, requester_user_id) ==
    /\ conns[c].pc = "idle"
    /\ IF user_id_to_delete \notin DOMAIN users
          \/ (requester_user_id # None /\ user_id_to_delete = requester_user_id)
       THEN returns_failure(c)
       ELSE goes_on(c, "user_active", "delete_user", user_id_to_delete,
                    requester_user_id, users[user_id_to_delete].role)

\* delete_user_db: SELECT COUNT(*) of the active borrows and its check
user_active(c) ==
    /\ conns[c].pc = "user_active"
    /\ IF active_of_user(borrowed, conns[c].a1) > 0
       THEN returns_failure(c)
       ELSE goes_on(c, IF conns[c].row = "admin" THEN "user_admins" ELSE "user_delete",
                    "delete_user", conns[c].a1, conns[c].a2, conns[c].row)

\* delete_user_db: SELECT COUNT(*) of the admins and its check
user_admins(c) ==
    /\ conns[c].pc = "user_admins"
    /\ IF admin_count(users) <= 1
       THEN returns_failure(c)
       ELSE goes_on(c, "user_delete", "delete_user", conns[c].a1, conns[c].a2,
                    conns[c].row)

\* delete_user_db: DELETE FROM users
user_delete(c) ==
    /\ conns[c].pc = "user_delete"
    /\ begins(c, "commit", [committed EXCEPT !.users = Delete(users, conns[c].a1)])

\* conn.commit(): what the transaction wrote becomes the database, and the
\* call returns (True, message)
commit(c) ==
    /\ conns[c].pc = "commit"
    /\ reserved = c
    /\ users' = pending.users
    /\ user_seq' = pending.user_seq
    /\ books' = pending.books
    /\ book_seq' = pending.book_seq
    /\ borrowed' = pending.borrowed
    /\ borrow_seq' = pending.borrow_seq
    /\ reserved' = None
    /\ pending' = no_pending
    /\ conns' = [conns EXCEPT ![c] = idle_conn]

\* (mutant) every statement committed on its own: what was written before the
\* call died stays
rollback_keeps_writes(c) ==
    /\ reserved = c
    /\ users' = pending.users
    /\ user_seq' = pending.user_seq
    /\ books' = pending.books
    /\ book_seq' = pending.book_seq
    /\ borrowed' = pending.borrowed
    /\ borrow_seq' = pending.borrow_seq
    /\ reserved' = None
    /\ pending' = no_pending
    /\ conns' = [conns EXCEPT ![c] = idle_conn]

\* the call dies inside its transaction (an exception, the process killed):
\* the connection's with block, or the journal, rolls the transaction back
rollback(c) ==
    /\ reserved = c
    /\ reserved' = None
    /\ pending' = no_pending
    /\ conns' = [conns EXCEPT ![c] = idle_conn]
    /\ UNCHANGED store

\* the first write waits for the lock longer than the connection's timeout:
\* sqlite3.OperationalError, database is locked
busy_timeout(c) ==
    /\ conns[c].pc \in {"borrow_insert", "return_mark", "book_delete", "user_delete"}
    /\ reserved \notin {None, c}
    /\ conns' = [conns EXCEPT ![c] = idle_conn]
    /\ UNCHANGED <<store, reserved, pending>>

\* the reading of the clock while two calls race
RaceTimes == {[sec |-> 0, usec |-> 1]}

NextConnections ==
    \E c \in Conns :
        \/ conn_register(c, "alice", "pw", "admin")
        \/ conn_add(c)
        \/ \E u \in DOMAIN users, b \in BookIds : borrow_select(c, u, b)
        \/ \E t \in RaceTimes : borrow_insert(c, t)
        \/ borrow_update(c)
        \/ \E l \in BorrowIds : return_select(c, l)
        \/ \E t \in RaceTimes : return_mark(c, t)
        \/ return_update(c)
        \/ \E b \in BookIds : book_select(c, b)
        \/ book_delete(c)
        \/ \E t \in UserIds, r \in DOMAIN users : user_select(c, t, r)
        \/ user_active(c)
        \/ user_admins(c)
        \/ user_delete(c)
        \/ commit(c)
        \/ rollback(c)
        \/ busy_timeout(c)

SpecConnections == Init /\ [][NextConnections]_vars

(* ---------------- the program started again ---------------- *)
\* main() runs init_db on the database the processes left, none of them in a call
restart ==
    /\ \A c \in Conns : conns[c].pc = "idle"
    /\ init_db

\* the register window: any name, the role user
register_as_user == \E c \in Conns : conn_register(c, "admin", "pw", "user")

NextRestart ==
    \/ NextConnections
    \/ register_as_user
    \/ restart

SpecRestart == Init /\ [][NextRestart]_vars

(* ======================= properties ======================= *)
\* the loans of the ledger without a return date
OpenLoans == {l \in DOMAIN borrowed : borrowed[l].return_date = NULL}

\* the loans, open or closed, that reference book b
LoansOf(b) == {l \in DOMAIN borrowed : borrowed[l].book_id = b}

\* C1: every book in the catalog satisfies 0 <= qty_available <= qty_total.
C1_AvailableWithinTotal ==
    \A b \in DOMAIN books :
        0 <= books[b].qty_available /\ books[b].qty_available <= books[b].qty_total

\* C2 as stated: with update_book among the operations, for every book
\* qty_total - qty_available equals the number of open loans that reference it.
C2_LockstepWithUpdate ==
    \A b \in DOMAIN books :
        books[b].qty_total - books[b].qty_available
            = Cardinality(LoansOf(b) \cap OpenLoans)

\* qty_total - qty_available less the open loans of book b, in the store (bk, bw)
Drift(bk, bw, b) ==
    bk[b].qty_total - bk[b].qty_available
        - Cardinality({l \in DOMAIN bw : bw[l].book_id = b /\ bw[l].return_date = NULL})

\* C2 as amended: for every book, qty_total - qty_available less the number of
\* open loans that reference it is 0 when the book is added and is changed by
\* no operation but a successful update of that book.
C2_LockstepButUpdate ==
    [][\A b \in DOMAIN books' :
        /\ b \notin DOMAIN books => Drift(books', borrowed', b) = 0
        /\ (b \in DOMAIN books /\ Drift(books', borrowed', b) # Drift(books, borrowed, b))
               => \E i \in UpdateInputs :
                      /\ update_result(b, i[1], i[2], i[3])[1]
                      /\ update_book(b, i[1], i[2], i[3])
    ]_vars

\* a book lent twice and returned once, its count one below its total
C2_Witness ==
    \E b \in DOMAIN books :
        /\ LoansOf(b) \cap OpenLoans # {}
        /\ LoansOf(b) \ OpenLoans # {}
        /\ Drift(books, borrowed, b) = 0

\* C3: the users table always holds at least one user of role admin.
C3_AdminExists == \E u \in DOMAIN users : users[u].role = "admin"

\* an admin has been deleted (the seeded one) and another admin is left
C3_Witness ==
    /\ 1 \notin DOMAIN users
    /\ \E u \in DOMAIN users : users[u].role = "admin"

\* C4: the open loans that reference a book never outnumber its qty_total.
C4_OpenLoansWithinTotal ==
    \A b \in DOMAIN books :
        Cardinality(LoansOf(b) \cap OpenLoans) <= books[b].qty_total

\* C5: a borrow of an existing book with qty_available >= 1 succeeds, inserts
\* exactly one new open loan for that user and book whose due date is its borrow
\* date plus 14 days, takes 1 from the book's qty_available, and leaves qty_total,
\* every other book, every other loan and all users unchanged.
C5_BorrowEffect ==
    [][\A u \in UserIds, b \in BookIds, t \in Times :
        (b \in DOMAIN books /\ books[b].qty_available >= 1 /\ borrow_book(u, b, t)) =>
            /\ borrow_result(u, b) = <<TRUE, "Borrowed successfully">>
            /\ \E l \in DOMAIN borrowed' \ DOMAIN borrowed :
                /\ DOMAIN borrowed' = DOMAIN borrowed \cup {l}
                /\ borrowed'[l].user_id = u
                /\ borrowed'[l].book_id = b
                /\ borrowed'[l].return_date = NULL
                /\ borrowed'[l].borrow_date = t.sec
                /\ borrowed'[l].due_date = borrowed'[l].borrow_date + 14 * 86400
            /\ \A l \in DOMAIN borrowed : borrowed'[l] = borrowed[l]
            /\ DOMAIN books' = DOMAIN books
            /\ books'[b].qty_available = books[b].qty_available - 1
            /\ books'[b] = [books[b] EXCEPT !.qty_available = books'[b].qty_available]
            /\ \A o \in DOMAIN books \ {b} : books'[o] = books[o]
            /\ users' = users
    ]_vars

\* a borrow has acted while another book and its copies stood by: the lent book
\* has one copy less than its total, the other book has them all
C5_Witness ==
    \E l \in OpenLoans, o \in DOMAIN books :
        /\ borrowed[l].book_id \in DOMAIN books \ {o}
        /\ books[borrowed[l].book_id].qty_available
               = books[borrowed[l].book_id].qty_total - 1
        /\ borrowed[l].due_date = borrowed[l].borrow_date + 14 * 86400
        /\ borrowed[l].borrow_date = 1

\* C6: a borrow of a book with qty_available = 0 fails with "No copies available"
\* and changes nothing; and, no update of a book being among the operations, a
\* book added with n copies none of whose loans has been returned lends while
\* it has fewer than n loans and refuses the next borrow.
C6_NoCopies ==
    /\ [](\A u \in UserIds, b \in DOMAIN books :
            /\ books[b].qty_available = 0
                   => borrow_result(u, b) = <<FALSE, "No copies available">>
            /\ LoansOf(b) \subseteq OpenLoans
                   => /\ Cardinality(LoansOf(b)) < books[b].qty_total
                          => borrow_result(u, b) = <<TRUE, "Borrowed successfully">>
                      /\ Cardinality(LoansOf(b)) >= books[b].qty_total
                          => borrow_result(u, b) = <<FALSE, "No copies available">>)
    /\ [][\A u \in UserIds, b \in DOMAIN books, t \in Times :
            (books[b].qty_available = 0 /\ borrow_book(u, b, t))
                => UNCHANGED <<users, books, borrowed>>
       ]_vars

\* a book added with 2 copies has lent both: the third borrow is the refused one
C6_Witness ==
    \E b \in DOMAIN books :
        /\ books[b].qty_total = 2
        /\ books[b].qty_available = 0
        /\ Cardinality(LoansOf(b) \cap OpenLoans) = 2
        /\ \A u \in UserIds : ~borrow_result(u, b)[1]

\* C7: a return of an existing open loan succeeds, sets the loan's return date,
\* adds 1 to the qty_available of the book the loan references, and leaves
\* qty_total, every other book, every other loan and all users unchanged.
C7_ReturnEffect ==
    [][\A l \in BorrowIds, t \in Times :
        (l \in DOMAIN borrowed /\ borrowed[l].return_date = NULL /\ return_book(l, t)) =>
            /\ return_result(l) = <<TRUE, "Returned successfully">>
            /\ DOMAIN borrowed' = DOMAIN borrowed
            /\ borrowed'[l].return_date = t.sec
            /\ borrowed'[l].return_date # NULL
            /\ borrowed'[l] = [borrowed[l] EXCEPT !.return_date = borrowed'[l].return_date]
            /\ \A o \in DOMAIN borrowed \ {l} : borrowed'[o] = borrowed[o]
            /\ borrowed[l].book_id \in DOMAIN books
            /\ DOMAIN books' = DOMAIN books
            /\ books'[borrowed[l].book_id].qty_available
                   = books[borrowed[l].book_id].qty_available + 1
            /\ books'[borrowed[l].book_id]
                   = [books[borrowed[l].book_id] EXCEPT
                         !.qty_available = books'[borrowed[l].book_id].qty_available]
            /\ \A o \in DOMAIN books \ {borrowed[l].book_id} : books'[o] = books[o]
            /\ users' = users
    ]_vars

\* a return has acted: a closed loan beside an open one, two books in the catalog
C7_Witness ==
    \E l \in DOMAIN borrowed \ OpenLoans :
        /\ borrowed[l].book_id \in DOMAIN books
        /\ borrowed[l].return_date = 1
        /\ Cardinality(DOMAIN books) = 2

\* C8: of two returns of the same loan the first succeeds and the second fails
\* with "Already returned", changing neither qty_available nor the return date.
C8_ReturnTwice ==
    /\ [](\A l \in DOMAIN borrowed :
            IF borrowed[l].return_date = NULL
            THEN return_result(l) = <<TRUE, "Returned successfully">>
            ELSE return_result(l) = <<FALSE, "Already returned">>)
    /\ [][\A l \in BorrowIds, t \in Times :
            (l \in DOMAIN borrowed /\ borrowed[l].return_date # NULL /\ return_book(l, t))
                => /\ borrowed' = borrowed
                   /\ books' = books
       ]_vars

\* a loan returned at second 0: a second return at second 1 would show
C8_Witness ==
    \E l \in DOMAIN borrowed :
        /\ borrowed[l].return_date = 0
        /\ borrowed[l].book_id \in DOMAIN books
        /\ return_result(l) = <<FALSE, "Already returned">>

\* C9: a loan enters the ledger only by a successful borrow, and open; its only
\* change is the setting of its return date by a successful return; a set return
\* date never changes again; no operation removes a loan.
C9_LoanLifecycle ==
    [][/\ \A l \in DOMAIN borrowed :
            /\ l \in DOMAIN borrowed'
            /\ borrowed'[l] = [borrowed[l] EXCEPT !.return_date = borrowed'[l].return_date]
            /\ borrowed[l].return_date # NULL
                   => borrowed'[l].return_date = borrowed[l].return_date
            /\ borrowed'[l].return_date # borrowed[l].return_date
                   => /\ borrowed'[l].return_date # NULL
                      /\ return_result(l)[1]
                      /\ \E t \in Times : return_book(l, t)
       /\ \A l \in DOMAIN borrowed' \ DOMAIN borrowed :
            /\ borrowed'[l].return_date = NULL
            /\ \E u \in UserIds, b \in BookIds, t \in Times :
                   borrow_result(u, b)[1] /\ borrow_book(u, b, t)
    ]_vars

\* a closed loan that has outlived its book and its borrower
C9_Witness ==
    \E l \in DOMAIN borrowed \ OpenLoans :
        /\ borrowed[l].book_id \notin DOMAIN books
        /\ borrowed[l].user_id \notin DOMAIN users
        /\ borrowed[l].user_id <= user_seq

\* the failure the first failing guard of deleteUser reports, by the order
\* exists, not the requester, no open loans, not the last admin
C10_FirstFailingGuard(target, requester) ==
    LET NotFound == target \notin DOMAIN users
        SelfDelete == target = requester
        HasOpenLoans == \E l \in OpenLoans : borrowed[l].user_id = target
        LastAdmin ==
            /\ target \in DOMAIN users
            /\ users[target].role = "admin"
            /\ Cardinality({a \in DOMAIN users : users[a].role = "admin"}) <= 1
    IN  CASE NotFound -> "User not found"
          [] ~NotFound /\ SelfDelete ->
                "You cannot delete your own account while logged in."
          [] ~NotFound /\ ~SelfDelete /\ HasOpenLoans ->
                "Cannot delete: user has active (unreturned) borrowed books"
          [] ~NotFound /\ ~SelfDelete /\ ~HasOpenLoans /\ LastAdmin ->
                "Cannot delete the last remaining admin"
          [] OTHER -> "User deleted successfully"

\* C10: deleteUser reports the failure of the first failing guard in the order
\* target exists, target is not the requester, target has no open loans, target
\* is not the only admin.
C10_GuardOrder ==
    \A target \in UserIds, requester \in UserIds \cup {None} :
        delete_user_result(target, requester)[2]
            = C10_FirstFailingGuard(target, requester)

\* the only admin holds an open loan: asked to delete itself, three guards fail
C10_Witness ==
    \E a \in DOMAIN users :
        /\ users[a].role = "admin"
        /\ Cardinality({x \in DOMAIN users : users[x].role = "admin"}) = 1
        /\ \E l \in OpenLoans : borrowed[l].user_id = a
        /\ delete_user_result(a, a)[2]
               = "You cannot delete your own account while logged in."
        /\ delete_user_result(a, None)[2]
               = "Cannot delete: user has active (unreturned) borrowed books"

\* C11: deleteUser succeeds exactly when the target exists, is not the requester,
\* has no open loan and is not the only admin; it then removes the target alone
\* and changes no book and no loan.  So a user refused for an open loan can be
\* deleted once the loans are returned, and a sole admin once there is a second.
C11_DeleteUser ==
    /\ [](\A target \in UserIds, requester \in UserIds \cup {None} :
            delete_user_result(target, requester)[1]
                <=> /\ target \in DOMAIN users
                    /\ target # requester
                    /\ ~ \E l \in OpenLoans : borrowed[l].user_id = target
                    /\ ~ /\ users[target].role = "admin"
                         /\ Cardinality({a \in DOMAIN users : users[a].role = "admin"}) <= 1)
    /\ [][\A target \in UserIds, requester \in UserIds \cup {None} :
            (delete_user_result(target, requester)[1]
                 /\ delete_user_db(target, requester))
                => /\ DOMAIN users' = DOMAIN users \ {target}
                   /\ \A o \in DOMAIN users' : users'[o] = users[o]
                   /\ books' = books
                   /\ borrowed' = borrowed
       ]_vars

\* the seeded admin, once a borrower, deleted after its loan was returned and a
\* second admin registered; the loan and its book are still there
C11_Witness ==
    /\ 1 \notin DOMAIN users
    /\ \E l \in DOMAIN borrowed \ OpenLoans :
           /\ borrowed[l].user_id = 1
           /\ borrowed[l].book_id \in DOMAIN books

\* C12: delete of a book that an open loan references fails with "book currently
\* borrowed" and changes nothing; delete of a book of the catalog that no open
\* loan references removes that book alone and changes no other book, no loan
\* and no user.
C12_DeleteBook ==
    /\ [](\A b \in BookIds :
            /\ (LoansOf(b) \cap OpenLoans # {})
                   => delete_book_result(b)
                          = <<FALSE, "Cannot delete: book currently borrowed">>
            /\ (b \in DOMAIN books /\ LoansOf(b) \cap OpenLoans = {})
                   => delete_book_result(b) = <<TRUE, "Book deleted">>)
    /\ [][\A b \in BookIds :
            delete_book(b)
                => IF LoansOf(b) \cap OpenLoans # {}
                   THEN UNCHANGED <<users, books, borrowed>>
                   ELSE b \in DOMAIN books
                            => /\ DOMAIN books' = DOMAIN books \ {b}
                               /\ \A o \in DOMAIN books' : books'[o] = books[o]
                               /\ borrowed' = borrowed
                               /\ users' = users
       ]_vars

\* a book deleted after its loan was returned, while another book stays
C12_Witness ==
    /\ DOMAIN books # {}
    /\ \E l \in DOMAIN borrowed \ OpenLoans :
           /\ borrowed[l].book_id \notin DOMAIN books
           /\ borrowed[l].book_id <= book_seq

\* C13: delete of a book id that is not in the catalog reports a failure.
C13_DeleteMissingFails ==
    \A b \in BookIds \ DOMAIN books : ~delete_book_result(b)[1]

\* C14: update with valid quantities of a book id that is not in the catalog
\* reports a failure.
C14_UpdateMissingFails ==
    \A b \in BookIds \ DOMAIN books, i \in UpdateInputs :
        ( /\ ~year_error(i[1].year) /\ ~ValueError(i[2]) /\ ~ValueError(i[3])
          /\ 0 <= int(i[3]) /\ int(i[3]) <= int(i[2]) )
            => ~update_result(b, i[1], i[2], i[3])[1]

\* the quantities the claim calls invalid, on the integers the two texts denote
QuantitiesRefused(qt, qa) == int(qt) < 0 \/ int(qa) < 0 \/ int(qa) > int(qt)

\* C15 as stated: update fails and leaves the store unchanged when a quantity
\* is negative or qtyAvailable > qtyTotal; in every other case it succeeds and,
\* for an existing book, the book's fields become the supplied values.
C15_UpdateAsStated ==
    /\ [](\A b \in BookIds, i \in CatalogUpdateInputs :
            (~ValueError(i[2]) /\ ~ValueError(i[3]))
                => (update_result(b, i[1], i[2], i[3])[1]
                        <=> ~QuantitiesRefused(i[2], i[3])))
    /\ [][\A b \in DOMAIN books, i \in CatalogUpdateInputs :
            ( /\ ~ValueError(i[2]) /\ ~ValueError(i[3])
              /\ update_result(b, i[1], i[2], i[3])[1]
              /\ update_book(b, i[1], i[2], i[3]) )
                => /\ books'[b].title = i[1].title
                   /\ books'[b].author = i[1].author
                   /\ books'[b].isbn = i[1].isbn ]_vars

\* C15 amended: update fails and leaves the store unchanged when the year is
\* given and is no integer, when a quantity is no integer, when a quantity is
\* negative or when qtyAvailable > qtyTotal; otherwise it succeeds and, for an
\* existing book, title, author and isbn become the supplied texts without
\* their surrounding blanks, year the supplied integer or absent, qty_total
\* and qty_available exactly the supplied quantities whatever loans are open,
\* and no other book, no loan and no user changes.
C15_UpdateEffect ==
    /\ [](\A b \in BookIds, i \in CatalogUpdateInputs :
            update_result(b, i[1], i[2], i[3])[1]
                <=> /\ strip(i[1].year) = "" \/ ~ValueError(i[1].year)
                    /\ ~ValueError(i[2]) /\ ~ValueError(i[3])
                    /\ ~QuantitiesRefused(i[2], i[3]))
    \* the table a successful update writes
    /\ [](\A b \in BookIds, i \in CatalogUpdateInputs :
            update_result(b, i[1], i[2], i[3])[1]
                => LET after == updated_books(b, i[1], i[2], i[3])
                   IN  /\ DOMAIN after = DOMAIN books
                       /\ \A o \in DOMAIN books \ {b} : after[o] = books[o]
                       /\ b \in DOMAIN books
                           => /\ after[b].title = strip(i[1].title)
                              /\ after[b].author = strip(i[1].author)
                              /\ after[b].isbn = strip(i[1].isbn)
                              /\ after[b].year = IF strip(i[1].year) = ""
                                                 THEN NULL ELSE int(i[1].year)
                              /\ after[b].qty_total = int(i[2])
                              /\ after[b].qty_available = int(i[3]))
    \* a step that changes a user or a loan is no update, and a step that
    \* changes a book is no update that fails
    /\ [][ /\ (users' # users \/ borrowed' # borrowed)
               => \A b \in BookIds, i \in CatalogUpdateInputs :
                      ~update_book(b, i[1], i[2], i[3])
           /\ books' # books
               => \A b \in BookIds, i \in CatalogUpdateInputs :
                      ~update_result(b, i[1], i[2], i[3])[1]
                          => ~update_book(b, i[1], i[2], i[3]) ]_vars

\* an update has set the total of a book on loan to zero and given it a year
C15_Witness ==
    \E l \in OpenLoans :
        /\ borrowed[l].book_id \in DOMAIN books
        /\ books[borrowed[l].book_id].qty_total = 0
        /\ books[borrowed[l].book_id].year = 1965

\* C16 as stated: add fails when title or author is empty or qty is not a
\* positive integer, and in every other case it succeeds and creates one book.
C16_AddAsStated ==
    /\ [](\A f \in CatalogForms, q \in CatalogQtyTexts :
            add_result(f, q)[1]
                <=> ~ (f.title = "" \/ f.author = "" \/ ValueError(q) \/ int(q) <= 0))
    /\ [][\A f \in CatalogForms, q \in CatalogQtyTexts :
            (add_result(f, q)[1] /\ add_book(f, q))
                => Cardinality(DOMAIN books') = Cardinality(DOMAIN books) + 1 ]_vars

\* C16 amended: add fails and leaves the catalog unchanged when title or
\* author is empty, when the year is given and is no integer, or when qty is
\* not a positive integer; otherwise it creates exactly one new book whose
\* qty_total and qty_available both equal qty, and changes no existing book,
\* loan or user.
C16_AddEffect ==
    /\ [](\A f \in CatalogForms, q \in CatalogQtyTexts :
            add_result(f, q)[1]
                <=> ~ \/ f.title = "" \/ f.author = ""
                      \/ strip(f.year) # "" /\ ValueError(f.year)
                      \/ ValueError(q) \/ int(q) <= 0)
    /\ [][\A f \in CatalogForms, q \in CatalogQtyTexts :
            add_book(f, q)
                => IF ~add_result(f, q)[1]
                   THEN UNCHANGED <<users, books, borrowed>>
                   ELSE /\ \E n \in (DOMAIN books') \ DOMAIN books :
                             /\ DOMAIN books' = DOMAIN books \cup {n}
                             /\ books'[n].qty_total = int(q)
                             /\ books'[n].qty_available = int(q)
                        /\ \A o \in DOMAIN books : books'[o] = books[o]
                        /\ users' = users
                        /\ borrowed' = borrowed ]_vars

\* a second book with a year has joined a book that is out on loan
C16_Witness ==
    \E b1 \in DOMAIN books, b2 \in DOMAIN books :
        /\ b1 < b2
        /\ \E l \in OpenLoans : borrowed[l].book_id = b1
        /\ books[b2].year = 1965
        /\ books[b2].qty_total = 1
        /\ books[b2].qty_available = 1

\* the roles the users table accepts; register(username, password) uses one
StoredRoles == {"admin", "user"}

\* C17: register fails and leaves the users unchanged when username or
\* password is empty or a user with exactly that username exists; otherwise
\* it adds exactly one user; and no two users ever share a username.
C17_Register ==
    /\ [](\A i \in DOMAIN users, j \in DOMAIN users :
            users[i].username = users[j].username => i = j)
    /\ [](\A n \in AuthUsernames, p \in AuthPasswords, r \in StoredRoles :
            register_result(n, p, r)[1]
                <=> /\ n # "" /\ p # ""
                    /\ ~ \E i \in DOMAIN users : users[i].username = n)
    /\ [][\A n \in AuthUsernames, p \in AuthPasswords, r \in StoredRoles :
            register_user(n, p, r)
                => IF ~register_result(n, p, r)[1]
                   THEN UNCHANGED users
                   ELSE /\ \E new \in (DOMAIN users') \ DOMAIN users :
                             /\ DOMAIN users' = DOMAIN users \cup {new}
                             /\ users'[new].username = n
                             /\ users'[new].password_hash = hash_password(p)
                        /\ \A o \in DOMAIN users : users'[o] = users[o] ]_vars

\* "Admin" has registered beside "admin", and "alice" registered again after
\* the first alice was deleted
C17_Witness ==
    /\ \E i \in DOMAIN users : users[i].username = "Admin"
    /\ \E i \in DOMAIN users : users[i].username = "admin"
    /\ \E j \in DOMAIN users : users[j].username = "alice" /\ j = user_seq
    /\ Cardinality(DOMAIN users) < user_seq

\* C18: authenticate succeeds if and only if a user with exactly that username
\* exists and its stored digest is the digest of the supplied password, so it
\* fails for a username that is not in the store, and it changes nothing.
C18_Authenticate ==
    /\ [](\A n \in AuthUsernames, p \in AuthPasswords :
            /\ login_result(n, p)[1]
                <=> \E i \in DOMAIN users :
                        /\ users[i].username = n
                        /\ users[i].password_hash = hash_password(p)
            /\ (\A i \in DOMAIN users : users[i].username # n)
                => ~login_result(n, p)[1]
            /\ login_result(n, p)[1]
                => /\ login_result(n, p)[2].user_id \in DOMAIN users
                   /\ users[login_result(n, p)[2].user_id].username = n)
    /\ [][\A n \in AuthUsernames, p \in AuthPasswords :
            login_user(n, p) => UNCHANGED <<users, books, borrowed>> ]_vars

\* the first alice is gone and a later alice logs in with her own password
\* only, while the seeded admin's password opens the admin account
C18_Witness ==
    /\ 2 \notin DOMAIN users
    /\ \E i \in DOMAIN users : i > 2 /\ users[i].username = "alice"
    /\ login_result("alice", "pw")[1]
    /\ ~login_result("alice", "admin123")[1]
    /\ login_result("admin", "admin123")[1]
    /\ ~login_result("Admin", "admin123")[1]

\* C19: every loan of the ledger, open or returned, references a user that is
\* in the users table and a book that is in the books table.
C19_LoansReferenceRows ==
    \A l \in DOMAIN borrowed :
        /\ borrowed[l].user_id \in DOMAIN users
        /\ borrowed[l].book_id \in DOMAIN books

\* C20: when borrow is invoked only with ids of existing users, every open
\* loan references an existing user and an existing book, and a successful
\* return increments the qty_available of a book that is in the catalog.
C20_NoOrphanedOpenLoan ==
    /\ [](\A l \in OpenLoans :
            /\ borrowed[l].user_id \in DOMAIN users
            /\ borrowed[l].book_id \in DOMAIN books)
    /\ [][\A l \in BorrowIds :
            return_result(l)[1]
                => \A t \in Times :
                      return_book(l, t)
                          => /\ borrowed[l].book_id \in DOMAIN books
                             /\ borrowed[l].book_id \in DOMAIN books'
                             /\ books'[borrowed[l].book_id].qty_available
                                  = books[borrowed[l].book_id].qty_available + 1 ]_vars

\* the first account has been deleted, a later account holds an open loan,
\* and the guards refuse to delete that account and the book it holds
C20_Witness ==
    /\ 1 \notin DOMAIN users
    /\ \E l \in OpenLoans :
           /\ borrowed[l].user_id = 2
           /\ ~delete_user_result(2, None)[1]
           /\ ~delete_book_result(borrowed[l].book_id)[1]

\* the step writes to users, books or loans
StoreWritten == <<users, books, borrowed>>' # <<users, books, borrowed>>

\* C21: a call of register, deleteUser, add, update, delete, borrow or return
\* that returns a failure leaves users, books and loans as they were: in no
\* state can a failing call take a step that writes.
C21_FailureWritesNothing ==
    /\ \A n \in Usernames, p \in Passwords, r \in Roles :
          ~register_result(n, p, r)[1]
              => ~ENABLED (register_user(n, p, r) /\ StoreWritten)
    /\ \A t \in UserIds, r \in UserIds \cup {None} :
          ~delete_user_result(t, r)[1]
              => ~ENABLED (delete_user_db(t, r) /\ StoreWritten)
    /\ \A f \in BookForms, q \in QtyTexts :
          ~add_result(f, q)[1]
              => ~ENABLED (add_book(f, q) /\ StoreWritten)
    /\ \A b \in BookIds, i \in UpdateInputs :
          ~update_result(b, i[1], i[2], i[3])[1]
              => ~ENABLED (update_book(b, i[1], i[2], i[3]) /\ StoreWritten)
    /\ \A b \in BookIds :
          ~delete_book_result(b)[1]
              => ~ENABLED (delete_book(b) /\ StoreWritten)
    /\ \A u \in UserIds, b \in BookIds, t \in Times :
          ~borrow_result(u, b)[1]
              => ~ENABLED (borrow_book(u, b, t) /\ StoreWritten)
    /\ \A l \in BorrowIds, t \in Times :
          ~return_result(l)[1]
              => ~ENABLED (return_book(l, t) /\ StoreWritten)

\* a returned loan, an open loan and a book without copies: return, borrow,
\* delete of the book and delete of the borrower all fail here
C21_Witness ==
    \E l1 \in DOMAIN borrowed \ OpenLoans, l2 \in OpenLoans :
        /\ borrowed[l2].book_id \in DOMAIN books
        /\ ~return_result(l1)[1]
        /\ ~borrow_result(borrowed[l2].user_id, borrowed[l2].book_id)[1]
        /\ ~delete_book_result(borrowed[l2].book_id)[1]
        /\ borrowed[l2].user_id \in DOMAIN users
        /\ ~delete_user_result(borrowed[l2].user_id, None)[1]

\* C22: with two borrow calls interleaved on separate connections, no
\* committed state has a book with qty_available < 0 or with more open loans
\* than copies.
C22_BorrowRace ==
    \A b \in DOMAIN books :
        /\ books[b].qty_available >= 0
        /\ Cardinality(LoansOf(b) \cap OpenLoans) <= books[b].qty_total

\* C23: with two deleteUser calls interleaved on separate connections, at
\* least one admin remains in every committed state.
C23_DeleteUserRace == admin_count(users) >= 1

\* the step publishes the transaction of connection c
Commits(c) == reserved = c /\ reserved' = None /\ store' # store

\* C24: the two writes of borrow and of return become visible together: a
\* step changes the committed database only as the commit of the connection
\* that holds the write lock, and the commit of a borrow publishes the new
\* loan with the decrement, the commit of a return the return date with the
\* increment; a call that dies between its two writes publishes nothing.
C24_WritesCommitTogether ==
    [][ store' # store =>
          \E c \in Conns :
              /\ Commits(c)
              /\ conns[c].call = "borrow" =>
                    /\ DOMAIN borrowed' = DOMAIN borrowed \cup {borrow_seq + 1}
                    /\ borrow_seq + 1 \notin DOMAIN borrowed
                    /\ borrowed'[borrow_seq + 1].book_id = conns[c].a2
                    /\ borrowed'[borrow_seq + 1].return_date = NULL
                    /\ \A l \in DOMAIN borrowed : borrowed'[l] = borrowed[l]
                    /\ books' = adjust_available(books, conns[c].a2, -1)
              /\ conns[c].call = "return" =>
                    /\ DOMAIN borrowed' = DOMAIN borrowed
                    /\ borrowed'[conns[c].a1].return_date # NULL
                    /\ \A l \in DOMAIN borrowed \ {conns[c].a1} :
                           borrowed'[l] = borrowed[l]
                    /\ books' = adjust_available(books, borrowed[conns[c].a1].book_id, 1)
      ]_vars

\* a borrow stands between its two writes: its loan is written and not
\* committed, the copy not yet taken
C24_Witness ==
    \E c \in Conns :
        /\ reserved = c
        /\ conns[c].pc = "borrow_update"
        /\ DOMAIN pending.borrowed # DOMAIN borrowed
        /\ pending.books = books

\* C26: with two return calls for the same open loan interleaved on separate
\* connections, a return commits only for a loan that is still open, and the
\* book's qty_available never passes its qty_total.
C26_ReturnRace ==
    /\ [](\A b \in DOMAIN books : books[b].qty_available <= books[b].qty_total)
    /\ [][\A c \in Conns :
            (Commits(c) /\ conns[c].call = "return")
                => borrowed[conns[c].a1].return_date = NULL ]_vars

\* C27: with a borrow of a book interleaved with a delete of the same book on
\* separate connections, no committed state has an open loan whose book is not
\* in the catalog.
C27_BorrowDeleteRace ==
    \A l \in OpenLoans : borrowed[l].book_id \in DOMAIN books

\* C25: init_db run on a database without an admin leaves a user of role admin
\* with the username "admin" in it; run on a database with an admin it adds no
\* user and changes no user, book or loan.
C25_InitSeedsAdmin ==
    /\ admin_count(users) = 0
        => ENABLED (init_db /\ \E i \in DOMAIN users' :
                                   /\ users'[i].role = "admin"
                                   /\ users'[i].username = "admin")
    /\ admin_count(users) > 0 => ~ENABLED (init_db /\ store' # store)

\* C28: user, book and loan ids are never reused: every id in a table has been
\* assigned, the id a register, add or borrow assigns is larger than every id
\* assigned before it, and the loans a deleted user left behind stay without a
\* user and are on the list of no user registered later.
C28_IdsNeverReused ==
    /\ [](/\ \A i \in DOMAIN users : i <= user_seq
          /\ \A i \in DOMAIN books : i <= book_seq
          /\ \A i \in DOMAIN borrowed : i <= borrow_seq
          /\ \A l \in DOMAIN borrowed : borrowed[l].user_id <= user_seq
          /\ \A u \in UserIds : u > user_seq => list_borrowed_by_user(u) = {})
    /\ [][/\ user_seq' >= user_seq /\ book_seq' >= book_seq /\ borrow_seq' >= borrow_seq
          /\ \A i \in (DOMAIN users') \ DOMAIN users : i > user_seq
          /\ \A i \in (DOMAIN books') \ DOMAIN books : i > book_seq
          /\ \A i \in (DOMAIN borrowed') \ DOMAIN borrowed : i > borrow_seq
          /\ \A l \in DOMAIN borrowed :
                borrowed[l].user_id \notin DOMAIN users
                    => borrowed[l].user_id \notin DOMAIN users' ]_vars

\* the seeded admin has borrowed, returned and been deleted: its loan stays in
\* the ledger under an id that no user has and no later user will get
C28_Witness ==
    /\ 1 \notin DOMAIN users
    /\ \E l \in DOMAIN borrowed \ OpenLoans : borrowed[l].user_id = 1
    /\ 1 <= user_seq

====
